---- MODULE Spec2Model ----
(***************************************************************************)
(* A model of the labelled tree of tree.H, of its construction from a list *)
(* of delimited paths (treeNav.C: insert, makeTree), of the literal path   *)
(* resolver (treeFunctors.H: follow) and of the glob expander              *)
(* (treeCommands.H: Command::shellExpansion, adjustPattern, makePath).     *)
(*                                                                         *)
(* A C++ string is a sequence of one-character strings.  A node pointer is *)
(* the position of the node in the sequence nodes, in order of allocation; *)
(* the root is node 1 and the null pointer is 0.                           *)
(***************************************************************************)
EXTENDS Integers, Sequences, FiniteSets, TLC

VARIABLES
    nodes,    \* the heap of TreeNode<TreeInfo>: name, parent, level, idx, children
    pdelim,   \* makeTree's path delimiter (main's -d option)
    paths,    \* makeTree's argument: the list of paths to insert
    pi,       \* makeTree's loop position: the next path of paths to insert
    rets,     \* what the calls of insert returned, one per path inserted so far
    pc,       \* "build": in makeTree's loop; "done": makeTree returned;
              \* "ready": a built tree awaits a call; "called": the call returned;
              \* "prompt": main's loop awaits a line; "exit": the loop is left
    call,     \* the last call of follow, of shellExpansion or of a traversal,
              \* or the last command line, with what it did
    current   \* main's current node (NULL before main sets it and after q)

vars == <<nodes, pdelim, paths, pi, rets, pc, call, current>>

-----------------------------------------------------------------------------
(* Bounds of the model *)

\* makeTree is given at most this many paths
MaxPaths == 3
\* a path or pattern word handed to follow or shellExpansion has at most
\* this many segments drawn from Segs (the scenario words come on top)
MaxSegs == 2

-----------------------------------------------------------------------------
(* Pointers, characters and strings *)

NULL == 0
Root == 1
\* NodeFunction::none and the default maxLevel of DFS, -1ul
npos == -1
\* TreeInfo::delim
delim == "/"
\* the terminator of a C string
NUL == "NUL"

\* the character codes std::map<string, ...> orders its keys by
Ord(c) ==
    CASE c = "\t" -> 9
      [] c = " " -> 32
      [] c = "*" -> 42
      [] c = "." -> 46
      [] c = "/" -> 47
      [] c = "1" -> 49
      [] c = "2" -> 50
      [] c = "3" -> 51
      [] c = ":" -> 58
      [] c = "?" -> 63
      [] c = "A" -> 65
      [] c = "B" -> 66
      [] c = "L" -> 76
      [] c = "R" -> 82
      [] c = "X" -> 88
      [] OTHER -> 0

\* the characters isspace() accepts
Whitespace == {" ", "\t", "\n", "\f", "\r"}

RECURSIVE StrLess(_, _)
\* std::less<string>: lexicographic on the character codes
StrLess(a, b) ==
    IF b = <<>> THEN FALSE
    ELSE IF a = <<>> THEN TRUE
    ELSE IF Ord(Head(a)) < Ord(Head(b)) THEN TRUE
    ELSE IF Ord(Head(a)) > Ord(Head(b)) THEN FALSE
    ELSE StrLess(Tail(a), Tail(b))

RECURSIVE SortedKeys(_)
\* the keys of a std::map in iteration order (ascending)
SortedKeys(ks) ==
    IF ks = {} THEN <<>>
    ELSE LET m == CHOOSE k \in ks : \A o \in ks \ {k} : StrLess(k, o)
         IN  <<m>> \o SortedKeys(ks \ {m})

RECURSIVE Join(_, _)
\* the segments of segs joined by the character d
Join(segs, d) ==
    IF segs = <<>> THEN <<>>
    ELSE IF Len(segs) = 1 THEN Head(segs)
    ELSE Head(segs) \o <<d>> \o Join(Tail(segs), d)

\* an empty std::map<string, TreeNode*>
NoChildren == [k \in {} |-> NULL]

\* a default-initialised TreeNode<TreeInfo> (TreeInfo's member initialisers)
NewNode == [name |-> <<>>, parent |-> NULL, level |-> 0, idx |-> 0,
            children |-> NoChildren]

\* the tree holding only a default-initialised root (makeTree's "Node root;")
EmptyTree == <<NewNode>>

-----------------------------------------------------------------------------
(* insert (treeNav.C) *)

RECURSIVE TokLen(_, _, _)
\* the number of characters from position pos up to the next d or the end
TokLen(s, pos, d) ==
    IF pos > Len(s) \/ s[pos] = d THEN 0 ELSE 1 + TokLen(s, pos + 1, d)

\* getline that leaves the delimiter in the stream
getlineKeepDelim(s, pos, d) ==
    LET n == TokLen(s, pos, d)
    IN  [ok  |-> pos <= Len(s),
         tok |-> IF pos <= Len(s) THEN SubSeq(s, pos, pos + n - 1) ELSE <<>>,
         pos |-> pos + n]

\* std::getline(stream, tok, d) with the stream at position pos of s: it fails
\* when nothing is left to extract; otherwise tok is the text up to the next
\* d, which is extracted and dropped
getline(s, pos, d) ==
    LET n == TokLen(s, pos, d)
    IN  [ok  |-> pos <= Len(s),
         tok |-> IF pos <= Len(s) THEN SubSeq(s, pos, pos + n - 1) ELSE <<>>,
         pos |-> pos + n + 1]

\* the node insert allocates under key tok of node
Allocated(ns, node, tok, parent, level) ==
    Append([ns EXCEPT ![node].children =
               [k \in DOMAIN ns[node].children \cup {tok} |->
                   IF k = tok THEN Len(ns) + 1 ELSE ns[node].children[k]]],
           [name |-> tok, parent |-> parent, level |-> level, idx |-> 0,
            children |-> NoChildren])

\* addChild that forgets child->data.parent=node
addChildNoParent(ns, node, tok) ==
    IF tok \in DOMAIN ns[node].children THEN ns
    ELSE Allocated(ns, node, tok, NULL, ns[node].level + 1)

\* addChild that forgets child->data.level=node->data.level+1
addChildNoLevel(ns, node, tok) ==
    IF tok \in DOMAIN ns[node].children THEN ns
    ELSE Allocated(ns, node, tok, node, 0)

\* addChild that allocates a node even when the key has one
addChildAlways(ns, node, tok) ==
    Allocated(ns, node, tok, node, ns[node].level + 1)

\* operator[] of the child map followed by the allocation of a missing child
\* (insert's loop body): the heap after it
addChild(ns, node, tok) ==
    IF tok \in DOMAIN ns[node].children THEN ns
    ELSE Allocated(ns, node, tok, node, ns[node].level + 1)

RECURSIVE insertLoop(_, _, _, _, _)
\* while (getline(InStr, tok, pdelim) && !tok.empty()) { ... node=child; }
insertLoop(ns, node, path, pos, d) ==
    LET g == getline(path, pos, d)
    IN  IF ~g.ok \/ g.tok = <<>>
        THEN ns
        ELSE LET ns2 == addChild(ns, node, g.tok)
             IN  insertLoop(ns2, ns2[node].children[g.tok], path, g.pos, d)

\* insert without the comparison of the leading segment with the root's name
insertNoRootCheck(ns, path, d) ==
    IF path = <<>>
    THEN [ret |-> FALSE, nodes |-> ns]
    ELSE LET g == getline(path, 1, d)
         IN  [ret |-> TRUE,
              nodes |-> insertLoop(
                  IF ns[Root].name = <<>>
                  THEN [ns EXCEPT ![Root].name =
                           IF g.tok = <<>> THEN <<delim>> ELSE g.tok]
                  ELSE ns,
                  Root, path, g.pos, d)]

\* insert(root, path, pdelim): what it returns and the heap it leaves
insert(ns, path, d) ==
    IF path = <<>>
    THEN [ret |-> FALSE, nodes |-> ns]
    ELSE LET g == getline(path, 1, d)
         IN  IF ns[Root].name = <<>>
             THEN [ret |-> TRUE,
                   nodes |-> insertLoop(
                       [ns EXCEPT ![Root].name =
                           IF g.tok = <<>> THEN <<delim>> ELSE g.tok],
                       Root, path, g.pos, d)]
             ELSE IF g.tok # <<>> /\ ns[Root].name # g.tok
             THEN [ret |-> FALSE, nodes |-> ns]
             ELSE [ret |-> TRUE,
                   nodes |-> insertLoop(ns, Root, path, g.pos, d)]

-----------------------------------------------------------------------------
(* std::regex (ECMAScript) and regex_match on the tokens adjustPattern makes: *)
(* ordinary characters, ".", bracket expressions of ordinary characters, and  *)
(* the quantifiers "*" and "?"                                                *)

IsQuant(c) == c \in {"*", "?"}

RECURSIVE QuantLen(_, _)
\* the length of the run of quantifier characters of t from position i
QuantLen(t, i) ==
    IF i <= Len(t) /\ IsQuant(t[i]) THEN 1 + QuantLen(t, i + 1) ELSE 0

RECURSIVE BracketEnd(_, _)
\* the position of the first "]" of t from position i, or 0 when there is none
BracketEnd(t, i) ==
    IF i > Len(t) THEN 0
    ELSE IF t[i] = "]" THEN i
    ELSE BracketEnd(t, i + 1)

\* where the atom that starts at position i of t ends: a bracket expression
\* ends at its "]" (0 when it is not closed), any other atom is one character
AtomEnd(t, i) == IF t[i] = "[" THEN BracketEnd(t, i + 1) ELSE i

RECURSIVE regexItems(_, _)
\* the terms of the expression t from position i: an atom and how often it
\* may repeat.  A run of quantifiers repeats the atom any number of times if
\* it holds a "*" and at most once otherwise (a "?" after a quantifier makes
\* it lazy or makes the term optional, which does not change what matches in
\* full).  A "]" outside a bracket expression is an ordinary character.
regexItems(t, i) ==
    IF i > Len(t) \/ AtomEnd(t, i) = 0 THEN <<>>
    ELSE LET e   == AtomEnd(t, i)
             n   == QuantLen(t, e + 1)
             run == SubSeq(t, e + 1, e + n)
             q   == IF n = 0 THEN "one"
                    ELSE IF \E k \in 1..n : run[k] = "*" THEN "star"
                    ELSE "opt"
         IN  <<[any |-> t[i] = ".",
                set |-> IF t[i] = "[" THEN {t[k] : k \in (i + 1)..(e - 1)}
                        ELSE {t[i]},
                q |-> q]>>
             \o regexItems(t, e + n + 1)

RECURSIVE BracketOpen(_, _)
\* t has from position i a bracket expression that is not closed
BracketOpen(t, i) ==
    IF i > Len(t) THEN FALSE
    ELSE IF AtomEnd(t, i) = 0 THEN TRUE
    ELSE BracketOpen(t, AtomEnd(t, i) + 1)

\* regex re(tok.begin(), tok.end()): the constructor throws regex_error when
\* the expression starts with a quantifier (nothing to repeat) or leaves a
\* bracket expression open
regexCompile(t) ==
    IF (t # <<>> /\ IsQuant(t[1])) \/ BracketOpen(t, 1)
    THEN [ok |-> FALSE, items |-> <<>>]
    ELSE [ok |-> TRUE, items |-> regexItems(t, 1)]

\* one character against an atom: "." matches all but line terminators
AtomMatch(a, c) == IF a.any THEN c \notin {"\n", "\r"} ELSE c \in a.set

RECURSIVE itemsMatch(_, _, _, _)
\* the terms from i match the whole of key from j
itemsMatch(items, i, key, j) ==
    IF i > Len(items) THEN j > Len(key)
    ELSE LET it   == items[i]
             here == j <= Len(key) /\ AtomMatch(it, key[j])
         IN  CASE it.q = "one"  -> here /\ itemsMatch(items, i + 1, key, j + 1)
               [] it.q = "opt"  -> \/ itemsMatch(items, i + 1, key, j)
                                   \/ here /\ itemsMatch(items, i + 1, key, j + 1)
               [] it.q = "star" -> \/ itemsMatch(items, i + 1, key, j)
                                   \/ here /\ itemsMatch(items, i, key, j + 1)

\* regex_match(key, re): the whole key matches
regex_match(key, re) == itemsMatch(re.items, 1, key, 1)

-----------------------------------------------------------------------------
(* The traversals (tree.H) and the numbering visitors (treeFunctors.H) *)

\* TreeInfo::anyLevel, -1ul
anyLevel == -1

\* a < b on size_t, a negative number v standing for 2^64 + v
ULess(a, b) == IF (a < 0) = (b < 0) THEN a < b ELSE b < 0

\* a NodeFunction: its kind stands for the class's virtual table; level_ and
\* idx_ are the base class's counters; minLevel and maxLevel are the band of
\* NodeCounter and the window of PrintNode::Config, long_ and indentChar the
\* rest of that Config; n is NodeCounter's count;
\* out is what PrintNode wrote, a line being the indentation and the node; re
\* and flevel are Find's expression and level; found is Find's retNodes
Functor(kind) ==
    [kind |-> kind, level_ |-> 0, idx_ |-> 0, minLevel |-> 0,
     maxLevel |-> npos, long_ |-> FALSE, indentChar |-> "\t", n |-> 0,
     out |-> <<>>, re |-> regexCompile(<<>>), flevel |-> anyLevel,
     found |-> <<>>]

\* func(node): whether to continue to the children, the visitor and the heap
\* after the call
Visit(f, ns, n) ==
    CASE f.kind = "Level" ->
           [cont |-> TRUE, f |-> [f EXCEPT !.level_ = f.level_ + 1],
            nodes |-> [ns EXCEPT ![n].level = f.level_]]
      [] f.kind = "Index" ->
           [cont |-> TRUE, f |-> [f EXCEPT !.idx_ = f.idx_ + 1],
            nodes |-> [ns EXCEPT ![n].idx = f.idx_]]
      [] f.kind = "NodeCounter" ->
           [cont |-> TRUE,
            f |-> [f EXCEPT !.level_ = f.level_ + 1,
                            !.n = IF /\ ~ULess(f.level_, f.minLevel)
                                     /\ ULess(f.level_, f.maxLevel)
                                  THEN f.n + 1 ELSE f.n],
            nodes |-> ns]
      [] f.kind = "PrintNode" ->
           IF ~(~ULess(f.level_, f.minLevel) /\ ULess(f.level_, f.maxLevel))
           THEN [cont |-> ULess(f.level_, f.minLevel),
                 f |-> [f EXCEPT !.level_ = f.level_ + 1], nodes |-> ns]
           ELSE [cont |-> TRUE,
                 f |-> [f EXCEPT !.level_ = f.level_ + 1,
                                 !.out = Append(@, [tabs |-> f.level_, node |-> n,
                                                    text |-> ns[n].name,
                                                    long_ |-> f.long_,
                                                    indentChar |-> f.indentChar])],
                 nodes |-> ns]
      [] f.kind = "Find" ->
           [cont |-> TRUE,
            f |-> IF /\ f.flevel = anyLevel \/ ns[n].level = f.flevel
                     /\ regex_match(ns[n].name, f.re)
                  THEN [f EXCEPT !.found = Append(@, n)] ELSE f,
            nodes |-> ns]
      [] OTHER -> [cont |-> TRUE, f |-> f, nodes |-> ns]

\* onExit that leaves the counters alone
OnExitKeep(f, ns, n) == f

\* func.onExit(node): the visitor after the call
OnExit(f, ns, n) ==
    CASE f.kind \in {"Level", "NodeCounter", "PrintNode"} ->
           [f EXCEPT !.level_ = f.level_ - 1]
      [] f.kind = "Index" -> [f EXCEPT !.idx_ = f.idx_ - 1]
      [] OTHER -> f

\* func.level() <= maxLevel
LevelUpTo(l, maxLevel) == maxLevel = npos \/ l <= maxLevel

\* func.level() < maxLevel on size_t, where npos is the largest value
LevelBelow(l, maxLevel) == maxLevel = npos \/ l < maxLevel

\* the state of a walk: the visitor, the heap, and the calls of the visitor's
\* hooks so far, in order
Walk(f, ns) == [f |-> f, nodes |-> ns, ev |-> <<>>]

RECURSIVE DFS(_, _, _)
RECURSIVE DFSChildren(_, _, _, _)
\* DFS that leaves a node whose children it skips without the call of onExit
DFSNoExitOnPrune(st, n, maxLevel) ==
    IF LevelBelow(st.f.level_, maxLevel)
    THEN LET v  == Visit(st.f, st.nodes, n)
             s1 == [f |-> v.f, nodes |-> v.nodes,
                    ev |-> Append(st.ev, [e |-> "visit", n |-> n, cont |-> v.cont])]
         IN  IF v.cont
             THEN LET s2 == DFSChildren(s1, n,
                                SortedKeys(DOMAIN s1.nodes[n].children), maxLevel)
                  IN  [f |-> OnExit(s2.f, s2.nodes, n), nodes |-> s2.nodes,
                       ev |-> Append(s2.ev, [e |-> "exit", n |-> n, cont |-> TRUE])]
             ELSE s1
    ELSE st

\* DFS::operator()(node, func, maxLevel) on the walk st
DFS(st, n, maxLevel) ==
    IF LevelBelow(st.f.level_, maxLevel)
    THEN LET v  == Visit(st.f, st.nodes, n)
             s1 == [f |-> v.f, nodes |-> v.nodes,
                    ev |-> Append(st.ev, [e |-> "visit", n |-> n, cont |-> v.cont])]
             s2 == IF v.cont
                   THEN DFSChildren(s1, n,
                            SortedKeys(DOMAIN s1.nodes[n].children), maxLevel)
                   ELSE s1
         IN  [f |-> OnExit(s2.f, s2.nodes, n), nodes |-> s2.nodes,
              ev |-> Append(s2.ev, [e |-> "exit", n |-> n, cont |-> TRUE])]
    ELSE st

\* for(auto& [key, child] : node.children) dfs(*child, func, maxLevel);
DFSChildren(st, n, keys, maxLevel) ==
    IF keys = <<>> THEN st
    ELSE DFSChildren(DFS(st, st.nodes[n].children[Head(keys)], maxLevel),
                     n, Tail(keys), maxLevel)

\* the children of a node in key order
ChildSeq(ns, n) ==
    LET keys == SortedKeys(DOMAIN ns[n].children)
    IN  [i \in 1..Len(keys) |-> ns[n].children[keys[i]]]

RECURSIVE BFSLoop(_, _)
\* BFS that puts the children at the front of the queue
BFSLoopFront(st, q) ==
    IF q = <<>> THEN st
    ELSE LET n  == Head(q)
             v  == Visit(st.f, st.nodes, n)
             s1 == [f |-> v.f, nodes |-> v.nodes,
                    ev |-> Append(st.ev, [e |-> "visit", n |-> n, cont |-> v.cont])]
         IN  BFSLoop(s1, IF v.cont THEN ChildSeq(s1.nodes, n) \o Tail(q)
                                   ELSE Tail(q))

\* while(!q.empty()) { node=q.front(); q.pop(); cont=func(*node); ... }
BFSLoop(st, q) ==
    IF q = <<>> THEN st
    ELSE LET n  == Head(q)
             v  == Visit(st.f, st.nodes, n)
             s1 == [f |-> v.f, nodes |-> v.nodes,
                    ev |-> Append(st.ev, [e |-> "visit", n |-> n, cont |-> v.cont])]
         IN  BFSLoop(s1, IF v.cont THEN Tail(q) \o ChildSeq(s1.nodes, n)
                                   ELSE Tail(q))

\* BFS::operator()(root, func)
BFS(st, root) == BFSLoop(st, <<root>>)

\* setLevel(root): dfs(root, L) with a fresh Level visitor; the walk it makes
setLevelWalk(ns) == DFS(Walk(Functor("Level"), ns), Root, npos)
setLevel(ns) == setLevelWalk(ns).nodes

\* setIndex(root): bfs(root, Idx) with a fresh Index visitor; the walk it makes
setIndexWalk(ns) == BFS(Walk(Functor("Index"), ns), Root)
setIndex(ns) == setIndexWalk(ns).nodes

\* countNodes(root, minLevel, maxLevel)
countNodes(ns, root, minLevel, maxLevel) ==
    DFS(Walk([Functor("NodeCounter") EXCEPT !.minLevel = minLevel,
                                            !.maxLevel = maxLevel], ns),
        root, npos).f.n

\* printTree(root, ofile, config): the lines written
printTree(ns, root, config) ==
    DFS(Walk([Functor("PrintNode") EXCEPT !.minLevel = config.minLevel,
                                          !.maxLevel = config.maxLevel,
                                          !.long_ = config.long_,
                                          !.indentChar = config.indentChar], ns),
        root, npos).f.out

\* find(root, name, exact, level): the constructor of Find compiles name (and
\* may throw regex_error); the nodes found, in the order of the walk
find(ns, root, name, level) ==
    LET re == regexCompile(name)
    IN  IF ~re.ok THEN [ok |-> FALSE, nodes |-> <<>>]
        ELSE [ok |-> TRUE,
              nodes |-> BFS(Walk([Functor("Find") EXCEPT !.re = re,
                                                         !.flevel = level], ns),
                            root).f.found]

RECURSIVE insertAll(_, _, _)
\* for (const auto& path : paths) insert(root, path, delim);
insertAll(ns, ps, d) ==
    IF ps = <<>> THEN ns
    ELSE insertAll(insert(ns, Head(ps), d).nodes, Tail(ps), d)

\* makeTree(paths, delim): the tree it returns
makeTree(ps, d) == setIndex(setLevel(insertAll(EmptyTree, ps, d)))

\* new Node({name, parent}): list initialisation, the rest by default
Leaf(name, parent) == [NewNode EXCEPT !.name = name, !.parent = parent]

\* the nodes makeTree() allocates: / -> L, R; L -> LL, LR; R -> RL, RR
DefaultNodes ==
    LET kids(a, x, b, y) ==
            [k \in {a, b} |-> IF k = a THEN x ELSE y]
    IN  <<[Leaf(<<"/">>, NULL) EXCEPT
              !.children = kids(<<"L">>, 2, <<"R">>, 3)],
          [Leaf(<<"L">>, Root) EXCEPT
              !.children = kids(<<"L", "L">>, 4, <<"L", "R">>, 5)],
          [Leaf(<<"R">>, Root) EXCEPT
              !.children = kids(<<"R", "L">>, 6, <<"R", "R">>, 7)],
          Leaf(<<"L", "L">>, 2), Leaf(<<"L", "R">>, 2),
          Leaf(<<"R", "L">>, 3), Leaf(<<"R", "R">>, 3)>>

\* makeTree(): the built-in tree, numbered
makeTreeDefault == setIndex(setLevel(DefaultNodes))

-----------------------------------------------------------------------------
(* follow (treeFunctors.H) *)

\* *p for a pointer p into the C string s: past the last character stands
\* the terminator
CharAt(s, p) == IF p <= Len(s) THEN s[p] ELSE NUL

RECURSIVE SkipWhile(_, _, _)
\* while (*path is in cs) path++;
SkipWhile(s, p, cs) ==
    IF CharAt(s, p) \in cs THEN SkipWhile(s, p + 1, cs) ELSE p

RECURSIVE followLoop(_, _, _, _)
\* the while(path && *path) loop of follow, from position p with cwd
followLoop(ns, s, p, cwd) ==
    LET q == SkipWhile(s, p, {delim})
    IN  IF CharAt(s, q) = NUL
        THEN cwd
        ELSE LET pos == TokLen(s, q, delim)
                 tok == SubSeq(s, q, q + pos - 1)
             IN  IF tok = <<".">>
                 THEN followLoop(ns, s, q + pos, cwd)
                 ELSE IF tok = <<".", ".">>
                 THEN followLoop(ns, s, q + pos,
                          IF ns[cwd].parent # NULL THEN ns[cwd].parent ELSE cwd)
                 ELSE IF tok \in DOMAIN ns[cwd].children
                 THEN followLoop(ns, s, q + pos, ns[cwd].children[tok])
                 ELSE NULL

\* follow that starts at the current node also for an absolute path
followFromCurrent(ns, arg, node) ==
    followLoop(ns, arg, SkipWhile(arg, 1, Whitespace),
               IF node # NULL THEN node ELSE Root)

\* follow that returns not-found for a path without a segment
followRejectEmpty(ns, arg, node) ==
    LET p   == SkipWhile(arg, 1, Whitespace)
        cwd == IF CharAt(arg, p) = delim THEN Root
               ELSE IF node # NULL THEN node ELSE Root
    IN  IF CharAt(arg, p) = NUL THEN NULL ELSE followLoop(ns, arg, p, cwd)

\* follow(root, arg, node): the node reached, or NULL
follow(ns, arg, node) ==
    LET p   == SkipWhile(arg, 1, Whitespace)
        cwd == IF CharAt(arg, p) = delim THEN Root
               ELSE IF node # NULL THEN node ELSE Root
    IN  followLoop(ns, arg, p, cwd)

-----------------------------------------------------------------------------
(* Command::shellExpansion(node, w), adjustPattern, makePath (treeCommands.H) *)

\* the position of the terminator of the C string that starts memory m
EndOf(m) == TokLen(m, 1, NUL) + 1

RECURSIVE adjustLoop(_, _, _, _)
\* while (++wi && *wi && *wi!=delim) { ... } of adjustPattern, with wi at
\* position p: the token, where wi stops, and the two flags
adjustLoop(m, p, d, acc) ==
    LET c == CharAt(m, p)
    IN  IF c = NUL \/ c = d
        THEN [acc EXCEPT !.wi = p]
        ELSE adjustLoop(m, p + 1, d,
                 [tok       |-> acc.tok \o
                                (IF c = "*" THEN <<".", c>> ELSE <<c>>),
                  wi        |-> p,
                  isPattern |-> acc.isPattern \/ c \in {"*", "?", "[", "]"},
                  hasDelim  |-> acc.hasDelim \/ c = delim])

\* adjustPattern(w, delim): [tok, wi, isPattern, hasDelim]
adjustPattern(m, w, d) ==
    adjustLoop(m, w, d,
        [tok |-> <<>>, wi |-> w, isPattern |-> FALSE, hasDelim |-> FALSE])

\* makePath(): the path of the names on pathSoFar, stored in paths; made keeps
\* pathSoFar as it was at each call
makePath(ns, st) ==
    IF st.stack = <<>> THEN [st EXCEPT !.made = Append(@, st.stack)]
    ELSE [st EXCEPT !.made = Append(@, st.stack),
                    !.paths =
             Append(@, Join([i \in 1..Len(st.stack) |-> ns[st.stack[i]].name],
                            delim))]

\* pathSoFar.push_back(child) and pathSoFar.pop_back()
Push(st, child) == [st EXCEPT !.stack = Append(@, child)]
\* a return without pathSoFar.pop_back()
PopNothing(st) == st
Pop(st) == [st EXCEPT !.stack = SubSeq(@, 1, Len(@) - 1)]

RECURSIVE shellExpansion(_, _, _, _, _)
RECURSIVE expandChildren(_, _, _, _, _, _, _)
\* shellExpansion(node, w) with w the position in memory m of the pattern's
\* cursor, on st = [paths, stack (pathSoFar), oob: a cursor has left the
\* word, err: regex_error was thrown, made, ends: the node of each call that
\* met the end of the word, restored: every call that returned so far left
\* pathSoFar as it was given]
shellExpansion(ns, node, m, w, st0) ==
    LET st == [st0 EXCEPT !.oob = @ \/ w > EndOf(m)]
        a  == adjustPattern(m, w, delim)
        nx == IF CharAt(m, a.wi) # NUL THEN a.wi + 1 ELSE a.wi
        r  == IF CharAt(m, w) = NUL
              THEN [makePath(ns, st) EXCEPT !.ends = Append(@, node)]
              ELSE IF a.tok = <<>> THEN shellExpansion(ns, node, m, nx, st)
              ELSE IF ~a.isPattern
              THEN IF a.tok = <<".">>
                   THEN shellExpansion(ns, node, m, a.wi + 1, st)
                   ELSE IF a.tok = <<".", ".">>
                   THEN IF ns[node].parent # NULL
                        THEN shellExpansion(ns, ns[node].parent, m, nx, st)
                        ELSE st
                   ELSE IF a.tok \in DOMAIN ns[node].children
                   THEN LET child == ns[node].children[a.tok]
                            c     == shellExpansion(ns, child, m, nx, Push(st, child))
                        IN  IF c.err THEN c ELSE Pop(c)
                   ELSE st
              ELSE LET re == regexCompile(a.tok)
                   IN  IF ~re.ok THEN [st EXCEPT !.err = TRUE]
                       ELSE expandChildren(ns, node, m, nx, re,
                                SortedKeys(DOMAIN ns[node].children), st)
    IN  [r EXCEPT !.restored = @ /\ (r.err \/ r.stack = st0.stack)]

\* for (const auto& [key, child] : node.children) if (regex_match(key, re)) ...
expandChildren(ns, node, m, nx, re, keys, st) ==
    IF keys = <<>> \/ st.err THEN st
    ELSE IF regex_match(Head(keys), re)
    THEN LET child == ns[node].children[Head(keys)]
             r     == shellExpansion(ns, child, m, nx, Push(st, child))
         IN  IF r.err THEN r
             ELSE expandChildren(ns, node, m, nx, re, Tail(keys), Pop(r))
    ELSE expandChildren(ns, node, m, nx, re, Tail(keys), st)

\* the pattern branch of shellExpansion(const Node&): pathSoFar.clear();
\* paths.clear(); shellExpansion(node, word); with the bytes tail behind the
\* word's terminator
expand(ns, node, word, tail) ==
    shellExpansion(ns, node, word \o <<NUL>> \o tail, 1,
        [paths |-> <<>>, stack |-> <<>>, oob |-> FALSE, err |-> FALSE,
         made |-> <<>>, ends |-> <<>>, restored |-> TRUE])

-----------------------------------------------------------------------------
(* The Command constructor: makeArgs, wordType, shellExpansion(node)         *)
(* (treeCommands.H)                                                          *)

RECURSIVE makeArgsLoop(_, _, _)
\* for (auto c : cmdLine) switch(state) ... of makeArgs, from position i, on
\* st = [state, word, words, err: a string was thrown]; s2 is st after the
\* character at i
makeArgsLoop(line, i, st) ==
    IF i > Len(line) \/ st.err THEN st
    ELSE LET c == line[i]
         IN  CHOOSE r \in {makeArgsLoop(line, i + 1, s2) : s2 \in {
               CASE st.state = "none" ->
                      IF c \in Whitespace THEN st
                      ELSE [st EXCEPT !.word = <<c>>,
                                      !.state = IF c = "\"" THEN "quoted"
                                                ELSE "token"]
                 [] st.state = "token" ->
                      IF c \in Whitespace
                      THEN [st EXCEPT !.words = Append(@, st.word),
                                      !.state = "none"]
                      ELSE IF c = "\"" THEN [st EXCEPT !.err = TRUE]
                      ELSE [st EXCEPT !.word = Append(@, c)]
                 [] st.state = "quoted" ->
                      IF c = "\""
                      THEN [st EXCEPT !.words = Append(@, Append(st.word, c)),
                                      !.word = <<>>, !.state = "endq"]
                      ELSE [st EXCEPT !.word = Append(@, c)]
                 [] st.state = "endq" ->
                      IF c \in Whitespace THEN [st EXCEPT !.state = "none"]
                      ELSE [st EXCEPT !.err = TRUE]}} : TRUE

\* makeArgs(cmdLine): the words, or ok = FALSE when it throws a string
makeArgs(cmdLine) ==
    LET st == makeArgsLoop(cmdLine, 1,
                  [state |-> "none", word |-> <<>>, words |-> <<>>,
                   err |-> FALSE])
    IN  IF st.err \/ st.state = "quoted"
        THEN [ok |-> FALSE, words |-> <<>>]
        ELSE [ok |-> TRUE,
              words |-> IF st.state = "token" /\ st.word # <<>>
                        THEN Append(st.words, st.word) ELSE st.words]

RECURSIVE rangeLoop(_, _, _, _)
\* the while (w && *w) loop of wordType, from position i
rangeLoop(w, i, isPat, hasRange) ==
    IF i > Len(w)
    THEN IF hasRange THEN "invalid_"
         ELSE IF isPat THEN "pattern_" ELSE "plain_"
    ELSE IF w[i] = "[" /\ hasRange THEN "invalid_"
    ELSE IF w[i] = "]" /\ ~hasRange THEN "invalid_"
    ELSE rangeLoop(w, i + 1,
                   isPat \/ w[i] \in {"*", "?", "[", "]"},
                   IF w[i] = "[" THEN TRUE
                   ELSE IF w[i] = "]" THEN FALSE ELSE hasRange)

\* wordType(w) for a word that is not empty
wordType(w) ==
    IF w[1] = "\""
    THEN IF \E i \in 2..(Len(w) - 1) : w[i] = "\"" THEN "invalid_"
         ELSE IF w[Len(w)] = "\"" THEN "quoted_" ELSE "invalid_"
    ELSE rangeLoop(w, 1, FALSE, FALSE)

RECURSIVE shellExpansionArgv(_, _, _, _, _)
\* case pattern_ with the word erased also when no path was found
replaceWordAlways(ns, node, i, tail, st, r) ==
    LET s == [st EXCEPT !.tried = Append(@, st.argv[i]), !.oob = @ \/ r.oob]
    IN  IF r.err THEN [s EXCEPT !.thrown = "regex_error"]
        ELSE shellExpansionArgv(ns, node, i + Len(r.paths), tail,
                 [s EXCEPT !.argv = SubSeq(st.argv, 1, i - 1) \o r.paths
                                      \o SubSeq(st.argv, i + 1, Len(st.argv))])

\* case pattern_ of shellExpansion(node) for the word at i, r being what
\* shellExpansion(node, word) left: a regex_error leaves the constructor; the
\* paths found replace the word and the loop goes on behind them; with no
\* path the word stays
replaceWord(ns, node, i, tail, st, r) ==
    LET s == [st EXCEPT !.tried = Append(@, st.argv[i]), !.oob = @ \/ r.oob]
    IN  IF r.err THEN [s EXCEPT !.thrown = "regex_error"]
        ELSE IF r.paths # <<>>
        THEN shellExpansionArgv(ns, node, i + Len(r.paths), tail,
                 [s EXCEPT !.argv = SubSeq(st.argv, 1, i - 1) \o r.paths
                                      \o SubSeq(st.argv, i + 1, Len(st.argv))])
        ELSE shellExpansionArgv(ns, node, i + 1, tail, s)

\* shellExpansion(node): the loop over ArgvStr from position i, on
\* st = [argv, thrown: "none", "string" or "regex_error", tried: the words
\* handed to shellExpansion(node, word), oob]
shellExpansionArgv(ns, node, i, tail, st) ==
    IF i > Len(st.argv) \/ st.thrown # "none" THEN st
    ELSE LET word == st.argv[i]
             wt   == wordType(word)
             rest == SubSeq(st.argv, i + 1, Len(st.argv))
             pre  == SubSeq(st.argv, 1, i - 1)
         IN  CASE wt = "quoted_" ->
                    shellExpansionArgv(ns, node, i + 1, tail,
                        [st EXCEPT !.argv = pre
                             \o <<SubSeq(word, 2, Len(word) - 1)>> \o rest])
               [] wt = "invalid_" -> [st EXCEPT !.thrown = "string"]
               [] wt = "pattern_" ->
                    replaceWord(ns, node, i, tail, st,
                                expand(ns, node, word, tail))
               [] OTHER -> shellExpansionArgv(ns, node, i + 1, tail, st)

RECURSIVE FindChar(_, _, _)
\* string::find(c) from position i: the position, or 0 for npos
FindChar(line, c, i) ==
    IF i > Len(line) THEN 0
    ELSE IF line[i] = c THEN i
    ELSE FindChar(line, c, i + 1)

RECURSIVE StripRight(_)
\* s without its trailing whitespace
StripRight(s) ==
    IF s # <<>> /\ s[Len(s)] \in Whitespace
    THEN StripRight(SubSeq(s, 1, Len(s) - 1)) ELSE s

RECURSIVE SkipSpace(_)
\* s without its leading whitespace
SkipSpace(s) ==
    IF s # <<>> /\ Head(s) \in Whitespace THEN SkipSpace(Tail(s)) ELSE s

\* Command(cmdLine, name, root, c): the words Argv holds once the constructor
\* is done, the output file, and what was thrown; tail is what stands in
\* memory behind a word's terminator
CommandCtor(ns, cmdLine, c, tail) ==
    LET pos   == FindChar(cmdLine, ">", 1)
        ofile == IF pos = 0 THEN <<>>
                 ELSE StripRight(SkipSpace(SubSeq(cmdLine, pos + 1, Len(cmdLine))))
        args  == makeArgs(IF pos = 0 THEN cmdLine
                          ELSE SubSeq(cmdLine, 1, pos - 1))
        st0   == [argv |-> args.words,
                  thrown |-> IF args.ok THEN "none" ELSE "string",
                  tried |-> <<>>, oob |-> FALSE, ofile |-> ofile]
    IN  \* if (current) shellExpansion(*current): with no current node the
        \* loop over the words is not entered
        shellExpansionArgv(ns, c, IF c # NULL THEN 1 ELSE Len(args.words) + 1,
                           tail, st0)

-----------------------------------------------------------------------------
(* The commands: getopt, List, ChgDir, PWD, TreeCmd, FindCmd, Quit and the   *)
(* CommandFactory (treeCommands.H)                                           *)

RECURSIVE getoptLoop(_, _, _, _, _, _)
\* the calls of getopt(ac, av, optstring) until it returns -1, with optind = 0
\* before the first: the options in order, "?" for a character that is no
\* option or lacks its argument, and the words that are no options, which
\* getopt moves behind the options; i is the word and j the character of a
\* word of options getopt is at (0 between words)
getoptLoop(av, i, j, flags, argopts, acc) ==
    IF i > Len(av) THEN acc
    ELSE LET w == av[i]
         IN  IF j = 0
             THEN IF w = <<"-", "-">>
                  THEN [acc EXCEPT !.rest = @ \o SubSeq(av, i + 1, Len(av))]
                  ELSE IF Len(w) >= 2 /\ w[1] = "-"
                  THEN getoptLoop(av, i, 2, flags, argopts, acc)
                  ELSE getoptLoop(av, i + 1, 0, flags, argopts,
                           [acc EXCEPT !.rest = Append(@, w)])
             ELSE LET c  == w[j]
                      ni == IF j < Len(w) THEN i ELSE i + 1
                      nj == IF j < Len(w) THEN j + 1 ELSE 0
                  IN  IF c \in flags
                      THEN getoptLoop(av, ni, nj, flags, argopts,
                               [acc EXCEPT !.opts = Append(@, [o |-> c, arg |-> <<>>])])
                      ELSE IF c \notin argopts
                      THEN getoptLoop(av, ni, nj, flags, argopts,
                               [acc EXCEPT !.opts = Append(@, [o |-> "?", arg |-> <<>>])])
                      ELSE IF j < Len(w)
                      THEN getoptLoop(av, i + 1, 0, flags, argopts,
                               [acc EXCEPT !.opts = Append(@,
                                   [o |-> c, arg |-> SubSeq(w, j + 1, Len(w))])])
                      ELSE IF i + 1 <= Len(av)
                      THEN getoptLoop(av, i + 2, 0, flags, argopts,
                               [acc EXCEPT !.opts = Append(@, [o |-> c, arg |-> av[i + 1]])])
                      ELSE getoptLoop(av, i + 1, 0, flags, argopts,
                               [acc EXCEPT !.opts = Append(@, [o |-> "?", arg |-> <<>>])])

\* the options and the other words of av, av[1] being the command's name
getopt(av, flags, argopts) ==
    getoptLoop(av, 2, 0, flags, argopts, [opts |-> <<>>, rest |-> <<>>])

\* the switch sends "h" and "?" to help() and returns
AsksHelp(opts) == \E i \in 1..Len(opts) : opts[i].o \in {"h", "?"}

\* the argument of the last option o of opts, or none
OptArg(opts, o, none) ==
    LET is == {i \in 1..Len(opts) : opts[i].o = o}
    IN  IF is = {} THEN none
        ELSE opts[CHOOSE i \in is : \A k \in is : k <= i].arg

Digit(c) ==
    CASE c = "0" -> 0 [] c = "1" -> 1 [] c = "2" -> 2 [] c = "3" -> 3
      [] c = "4" -> 4 [] c = "5" -> 5 [] c = "6" -> 6 [] c = "7" -> 7
      [] c = "8" -> 8 [] c = "9" -> 9 [] OTHER -> -1

RECURSIVE digitsLoop(_, _, _)
digitsLoop(s, i, acc) ==
    IF i > Len(s) \/ Digit(s[i]) < 0 THEN acc
    ELSE digitsLoop(s, i + 1, 10 * acc + Digit(s[i]))

\* strtol(s, NULL, 10) stored in a size_t: whitespace, an optional sign, the
\* digits up to the first other character; 0 when there is no digit
strtol(s) ==
    LET t == SkipSpace(s)
    IN  IF t # <<>> /\ t[1] = "-" THEN 0 - digitsLoop(t, 2, 0)
        ELSE IF t # <<>> /\ t[1] = "+" THEN digitsLoop(t, 2, 0)
        ELSE digitsLoop(t, 1, 0)

RECURSIVE PwdGet(_, _, _)
\* PWD::get(current): the loop up the parents, path being what is built so far
PwdGet(ns, node, path) ==
    IF node = NULL THEN path
    ELSE PwdGet(ns, ns[node].parent,
                IF ns[node].name = <<>> \/ ns[node].name[1] # delim
                THEN ns[node].name \o <<delim>> \o path
                ELSE <<delim>> \o path)

\* a line of output: a path written by pwd
PathLine(ns, n) ==
    [tabs |-> 0, node |-> n, text |-> PwdGet(ns, ns[n].parent, ns[n].name),
     long_ |-> FALSE, indentChar |-> "\t"]

\* what exec leaves: the node it returns, the lines written to the output,
\* the message written to cerr, and whether regex_error left it
Done(ret, out, msg) == [ret |-> ret, out |-> out, msg |-> msg, thrown |-> "none"]

RECURSIVE printNodes(_, _, _)
\* printNode(*n) for each n of ps, one visitor serving all calls
printNodes(f, ns, ps) ==
    IF ps = <<>> THEN f
    ELSE printNodes(Visit(f, ns, Head(ps)).f, ns, Tail(ps))

\* "ls proper": the node itself when it is a leaf or -d is given, else its
\* children
lsProper(f, ns, cwd, lsSelf) ==
    IF DOMAIN ns[cwd].children = {} \/ lsSelf
    THEN printNodes(f, ns, <<cwd>>)
    ELSE printNodes(f, ns, ChildSeq(ns, cwd))

RECURSIVE lsPaths(_, _, _, _, _)
\* while (optind < ac) { cwd=follow(root, path, current); ... }
lsPaths(f, ns, cur, ps, lsSelf) ==
    IF ps = <<>> THEN Done(cur, f.out, "")
    ELSE LET cwd == follow(ns, Head(ps), cur)
         IN  IF cwd = NULL THEN Done(cur, f.out, "ls: cannot access")
             ELSE lsPaths(lsProper(f, ns, cwd, lsSelf), ns, cur, Tail(ps),
                          lsSelf)

\* List::exec
ListExec(ns, cur, av) ==
    LET g == getopt(av, {"l", "d", "h"}, {})
        f == [Functor("PrintNode") EXCEPT
                 !.long_ = \E i \in 1..Len(g.opts) : g.opts[i].o = "l",
                 !.indentChar = NUL]
        lsSelf == \E i \in 1..Len(g.opts) : g.opts[i].o = "d"
    IN  IF AsksHelp(g.opts) THEN Done(cur, <<>>, "help")
        ELSE IF g.rest = <<>>
        THEN Done(cur, lsProper(f, ns, cur, lsSelf).out, "")
        ELSE lsPaths(f, ns, cur, g.rest, lsSelf)

\* ChgDir::exec without the test of what follow returned
ChgDirExecAnyway(ns, cur, av) ==
    LET g == getopt(av, {"h"}, {})
    IN  IF AsksHelp(g.opts) THEN Done(cur, <<>>, "help")
        ELSE IF Len(g.rest) > 1
        THEN Done(cur, <<>>, "cd: too many arguments")
        ELSE IF g.rest = <<>> \/ g.rest[1] = <<>> THEN Done(Root, <<>>, "")
        ELSE Done(follow(ns, g.rest[1], cur), <<>>, "")

\* ChgDir::exec
ChgDirExec(ns, cur, av) ==
    LET g    == getopt(av, {"h"}, {})
        path == IF g.rest = <<>> THEN <<>> ELSE g.rest[1]
        cwd  == follow(ns, path, cur)
    IN  IF AsksHelp(g.opts) THEN Done(cur, <<>>, "help")
        ELSE IF Len(g.rest) > 1
        THEN Done(cur, <<>>, "cd: too many arguments")
        ELSE IF path = <<>> THEN Done(Root, <<>>, "")
        ELSE IF cwd # NULL THEN Done(cwd, <<>>, "")
        ELSE Done(cur, <<>>, "cd: No such node")

\* PWD::exec
PWDExec(ns, cur, av) ==
    LET g == getopt(av, {"h"}, {})
    IN  IF AsksHelp(g.opts) THEN Done(cur, <<>>, "help")
        ELSE Done(cur, <<PathLine(ns, cur)>>, "")

\* TreeCmd::exec
TreeCmdExec(ns, cur, av) ==
    LET g    == getopt(av, {"l", "h"}, {"L", "t"})
        L    == OptArg(g.opts, "L", <<>>)
        t    == OptArg(g.opts, "t", <<"\t">>)
        max0 == IF \E i \in 1..Len(g.opts) : g.opts[i].o = "L"
                THEN strtol(L) ELSE npos
        path == IF g.rest = <<>> THEN <<>> ELSE g.rest[1]
        cwd  == IF path = <<>> THEN cur ELSE follow(ns, path, cur)
    IN  IF AsksHelp(g.opts) THEN Done(cur, <<>>, "help")
        ELSE IF Len(g.rest) > 1
        THEN Done(cur, <<>>, "tree: too many arguments")
        ELSE IF cwd = NULL THEN Done(cur, <<>>, "ls: cannot access")
        ELSE Done(cur,
                  printTree(ns, cwd,
                      [minLevel |-> 0,
                       maxLevel |-> IF ULess(max0, npos)
                                    THEN max0 + ns[cwd].level ELSE max0,
                       long_ |-> \E i \in 1..Len(g.opts) : g.opts[i].o = "l",
                       indentChar |-> CharAt(t, 1)]),
                  "")

\* FindCmd::exec
FindCmdExec(ns, cur, av) ==
    LET g     == getopt(av, {"e", "h"}, {"l"})
        level == IF \E i \in 1..Len(g.opts) : g.opts[i].o = "l"
                 THEN strtol(OptArg(g.opts, "l", <<>>)) ELSE anyLevel
        a     == adjustPattern(g.rest[1], 1, NUL)
        what  == IF g.rest = <<>> THEN <<".", "*">> ELSE a.tok
        r     == find(ns, cur, what, level)
    IN  IF AsksHelp(g.opts) THEN Done(cur, <<>>, "help")
        ELSE IF Len(g.rest) > 2
        THEN Done(cur, <<>>, "find: too many arguments")
        ELSE IF Len(g.rest) = 2
        THEN Done(cur, <<>>, "find: No such node")
        ELSE IF g.rest # <<>> /\ a.hasDelim
        THEN Done(cur, <<>>, "find matches against basenames only")
        ELSE IF ~r.ok
        THEN [Done(cur, <<>>, "") EXCEPT !.thrown = "regex_error"]
        ELSE Done(cur, [i \in 1..Len(r.nodes) |-> PathLine(ns, r.nodes[i])], "")

\* Quit::exec
QuitExec(ns, cur, av) == Done(NULL, <<>>, "")

\* the keys of CommandFactory::apiMap, as main registers them
cLs   == <<"l", "s">>
cCd   == <<"c", "d">>
cPwd  == <<"p", "w", "d">>
cTree == <<"t", "r", "e", "e">>
cFind == <<"f", "i", "n", "d">>
cQuit == <<"q">>
apiMap == {cLs, cCd, cPwd, cTree, cFind, cQuit}

\* InStr >> cmd: the first word of the line
FirstWord(line) ==
    LET t == SkipSpace(line)
    IN  SubSeq(t, 1, CHOOSE n \in 0..Len(t) :
                        /\ \A i \in 1..n : t[i] \notin Whitespace
                        /\ n = Len(t) \/ t[n + 1] \in Whitespace)

\* the constructor create() calls for the command cmd: PWD and Quit hand the
\* base class their own name instead of the line, FindCmd and Quit no current
\* node
Construct(ns, cmd, cmdLine, cur, tail) ==
    CommandCtor(ns, IF cmd \in {cPwd, cQuit} THEN cmd ELSE cmdLine,
                IF cmd \in {cQuit, cFind} THEN NULL ELSE cur, tail)

\* cmd->exec()
Exec(ns, cmd, cur, av) ==
    CASE cmd = cLs   -> ListExec(ns, cur, av)
      [] cmd = cCd   -> ChgDirExec(ns, cur, av)
      [] cmd = cPwd  -> PWDExec(ns, cur, av)
      [] cmd = cTree -> TreeCmdExec(ns, cur, av)
      [] cmd = cFind -> FindCmdExec(ns, cur, av)
      [] OTHER       -> QuitExec(ns, cur, av)

\* what a line leaves: the command named, what was thrown ("string" is
\* caught in the loop, "regex_error" outside of it), whether exec was entered,
\* the current node after it, the output, and what the constructor left
LineResult(cmd, cur, c) ==
    [cmd |-> cmd, known |-> cmd \in apiMap, thrown |-> c.thrown,
     executed |-> FALSE, current |-> cur, out |-> <<>>, msg |-> "",
     argv |-> c.argv, tried |-> c.tried, oob |-> c.oob, ofile |-> c.ofile]

\* current=cmd->exec(), x being what exec left: an exception leaves current
\* as it was
Executed(r, x) ==
    [r EXCEPT !.thrown = x.thrown, !.executed = TRUE,
              !.current = IF x.thrown = "none" THEN x.ret ELSE @,
              !.out = x.out, !.msg = x.msg]

\* the line once create() has constructed the command as c: exec follows
\* unless the constructor threw
Created(ns, cmd, cur, c) ==
    IF c.thrown # "none" THEN LineResult(cmd, cur, c)
    ELSE Executed(LineResult(cmd, cur, c), Exec(ns, cmd, cur, c.argv))

\* create(cmd, cmdLine, root, current) for the first word cmd: a word that
\* is no key of apiMap writes the help or "command not found"
Create(ns, cur, cmdLine, cmd, tail) ==
    IF cmd \notin apiMap
    THEN [LineResult(cmd, cur, [thrown |-> "none", argv |-> <<>>,
                                tried |-> <<>>, oob |-> FALSE, ofile |-> <<>>])
             EXCEPT !.msg = IF cmdLine \in {<<"h">>, <<"h", "e", "l", "p">>}
                            THEN "help" ELSE "command not found"]
    ELSE Created(ns, cmd, cur, Construct(ns, cmd, cmdLine, cur, tail))

\* the body of main's loop for a line that is not empty: create, then exec
RunLine(ns, cur, cmdLine, tail) ==
    Create(ns, cur, cmdLine, FirstWord(cmdLine), tail)

-----------------------------------------------------------------------------
(* The inputs of the model *)

\* the sequences over S of length at most n
SeqsUpTo(S, n) == UNION {[1..k -> S] : k \in 0..n}

\* the names of the scenario tree
nA   == <<"A">>
nA1  == <<"A", "1">>
nA2  == <<"A", "2">>
nA23 == <<"A", "2", "3">>
nB   == <<"B">>
nB1  == <<"B", "1">>

\* the scenario's path list, as written and with a leading delimiter
ScenarioPaths ==
    <<Join(<<nA, nA1, nA23>>, "/"), Join(<<nA, nA2>>, "/"), Join(<<nB, nB1>>, "/")>>
RootedPaths ==
    [i \in 1..3 |-> <<"/">> \o ScenarioPaths[i]]

\* a tree file with a name that holds a wildcard character
StarPaths == <<<<"/", "L", "*">>, <<"/", "L", "L">>>>

\* the lines a tree file may hold: the empty line, the scenario's paths in both
\* forms, a repeated delimiter, a segment named ".", and a path written with
\* the delimiter ":"
InsPaths ==
    {<<>>} \cup {ScenarioPaths[i] : i \in 1..3} \cup {RootedPaths[i] : i \in 1..3}
    \cup {<<"/", "A", "/", "/", "B">>, <<"/", "A", "/", ".">>,
          <<"A", ":", "A", "1">>}

\* the delimiters main may be started with (-d)
PathDelims == {"/", ":"}

-----------------------------------------------------------------------------
(* makeTree(paths, delim), one call of insert per step (treeNav.C) *)

NoCall == [op |-> "none", word |-> <<>>, cur |-> NULL, node |-> NULL,
           paths |-> <<>>, stack |-> <<>>, oob |-> FALSE, err |-> FALSE,
           made |-> <<>>, ends |-> <<>>, restored |-> TRUE]

Init ==
    /\ nodes = EmptyTree
    /\ pdelim \in PathDelims
    /\ paths \in SeqsUpTo(InsPaths, MaxPaths)
    /\ pi = 1
    /\ rets = <<>>
    /\ pc = "build"
    /\ call = NoCall
    /\ current = NULL

\* one iteration of makeTree's loop: insert(root, path, delim), whose result
\* makeTree drops
InsertStep ==
    /\ pc = "build"
    /\ pi <= Len(paths)
    /\ LET r == insert(nodes, paths[pi], pdelim)
       IN  /\ nodes' = r.nodes
           /\ rets' = Append(rets, r.ret)
    /\ pi' = pi + 1
    /\ UNCHANGED <<pdelim, paths, pc, call, current>>

\* the end of makeTree: setLevel(root); setIndex(root); return root;
MakeTreeReturn ==
    /\ pc = "build"
    /\ pi > Len(paths)
    /\ nodes' = setIndex(setLevel(nodes))
    /\ pc' = "done"
    /\ UNCHANGED <<pdelim, paths, pi, rets, call, current>>

Next == InsertStep \/ MakeTreeReturn

Spec == Init /\ [][Next]_vars

-----------------------------------------------------------------------------
(* Calls of follow and of shellExpansion on a built tree *)

\* the path lists the trees of the navigation runs are built from: the
\* scenario in both forms, siblings A, A1, A12, names with a ".", and a node
\* named ".."
NavLists ==
    {ScenarioPaths, RootedPaths,
     <<<<"/", "A", "/", "A", "1">>, <<"/", "A", "1">>, <<"/", "A", "1", "2">>>>,
     <<<<"/", "A", ".", "1">>, <<"/", "A", "B">>, <<"/", "A", "/", "A", ".">>>>,
     <<<<"/", "A", "/", ".", ".">>, <<"/", "A", "/", "A", "1">>>>}

\* the trees main can hold once built: makeTree() and makeTree(paths, '/')
\* for every non-empty prefix of a list of NavLists
NavTrees ==
    {makeTreeDefault} \cup
    UNION {{makeTree(SubSeq(l, 1, k), delim) : k \in 1..Len(l)} : l \in NavLists}

\* the segments words are made of: empty (a repeated, leading or trailing
\* delimiter), names, "." and "..", and patterns
Segs ==
    {<<>>, nA, nA1, nA2, <<".">>, <<".", ".">>, <<"A", "*">>, <<"A", "?">>}

\* the scenario's words and words with "*", a "." beside "*", and "?" first
ScenarioWords ==
    {Join(<<nA, <<"A", "?">>, <<"A", "*">>>>, "/"),
     Join(<<<<>>, nA, nA1, nA23>>, "/"),
     Join(<<<<".", ".">>, <<"X", "*">>>>, "/"),
     Join(<<nA1, <<".", ".">>, <<"A", "*">>>>, "/"),
     <<"*">>, <<"*", "/", "*">>, <<"X", "*">>, <<"A", ".", "*">>,
     <<"*", "1">>, <<"A", "*", "2">>, <<"?">>, <<"L", "*">>, <<"*", "L">>}

Words ==
    {Join(segs, "/") : segs \in SeqsUpTo(Segs, MaxSegs)} \cup ScenarioWords

\* what may stand in memory behind a word's terminator
Tails == {<<>>, nA1, <<"X">>}

InitNav ==
    /\ nodes \in NavTrees
    /\ pdelim = delim
    /\ paths = <<>>
    /\ pi = 1
    /\ rets = <<>>
    /\ pc = "ready"
    /\ call = NoCall
    /\ current = Root

\* follow(root, arg, node), node being optional
Follow ==
    /\ pc = "ready"
    /\ \E w \in Words, ws \in {<<>>, <<" ">>}, cur \in 0..Len(nodes) :
          call' = [NoCall EXCEPT !.op = "follow", !.word = ws \o w,
                       !.cur = cur, !.node = follow(nodes, ws \o w, cur)]
    /\ pc' = "called"
    /\ UNCHANGED <<nodes, pdelim, paths, pi, rets, current>>

\* pathSoFar.clear(); paths.clear(); shellExpansion(node, word);
Expand ==
    /\ pc = "ready"
    /\ \E w \in Words, cur \in 1..Len(nodes), tail \in Tails :
          LET r == expand(nodes, cur, w, tail)
          IN  call' = [NoCall EXCEPT !.op = "expand", !.word = w, !.cur = cur,
                           !.paths = r.paths, !.stack = r.stack,
                           !.oob = r.oob, !.err = r.err,
                           !.made = r.made, !.ends = r.ends,
                           !.restored = r.restored]
    /\ pc' = "called"
    /\ UNCHANGED <<nodes, pdelim, paths, pi, rets, current>>

NextNav == Follow \/ Expand

SpecNav == InitNav /\ [][NextNav]_vars

-----------------------------------------------------------------------------
(* Calls of the traversals and of the numbering passes on a tree *)

\* the largest depth bound a walk is given, besides none
MaxBound == 3

\* the trees before they are numbered: what insert and makeTree() allocate
RawTrees ==
    {DefaultNodes} \cup
    UNION {{insertAll(EmptyTree, SubSeq(l, 1, k), delim) : k \in 1..Len(l)} :
             l \in NavLists}

\* a tree whose level and idx fields hold other values than the numbering
\* passes give (the fields are public)
Stale(ns) == [i \in 1..Len(ns) |-> [ns[i] EXCEPT !.level = 7 - ns[i].level,
                                                  !.idx = Len(ns) - i]]

WalkTrees == NavTrees \cup RawTrees \cup {Stale(t) : t \in NavTrees}

\* the visitors: the base class, the numbering visitors, NodeCounter with a
\* band, PrintNode with a window, Find with an expression and a level
Visitors ==
    {Functor(k) : k \in {"NodeFunction", "Level", "Index"}}
    \cup {[Functor(k) EXCEPT !.minLevel = b[1], !.maxLevel = b[2]] :
             k \in {"NodeCounter", "PrintNode"},
             b \in {<<0, npos>>, <<0, 1>>, <<0, 2>>, <<1, 2>>, <<1, npos>>}}
    \cup {[Functor("Find") EXCEPT !.re = regexCompile(e), !.flevel = l] :
             e \in {<<".", "*">>, <<"A", ".", "*">>}, l \in {anyLevel, 1}}

InitWalk ==
    /\ nodes \in WalkTrees
    /\ pdelim = delim
    /\ paths = <<>>
    /\ pi = 1
    /\ rets = <<>>
    /\ pc = "ready"
    /\ call = NoCall
    /\ current = Root

\* what a call of a traversal leaves: the visitor and the bound it was given,
\* the heap before, the hooks called and the visitor after
WalkCall(op, f, start, bound, r) ==
    [op |-> op, f0 |-> f, cur |-> start, bound |-> bound, before |-> nodes,
     ev |-> r.ev, f |-> r.f]

\* dfs(node, func, maxLevel)
CallDFS ==
    /\ pc = "ready"
    /\ \E f \in Visitors, n \in 1..Len(nodes), B \in (0..MaxBound) \cup {npos} :
          LET r == DFS(Walk(f, nodes), n, B)
          IN  /\ nodes' = r.nodes
              /\ call' = WalkCall("dfs", f, n, B, r)
    /\ pc' = "called"
    /\ UNCHANGED <<pdelim, paths, pi, rets, current>>

\* bfs(node, func)
CallBFS ==
    /\ pc = "ready"
    /\ \E f \in Visitors, n \in 1..Len(nodes) :
          LET r == BFS(Walk(f, nodes), n)
          IN  /\ nodes' = r.nodes
              /\ call' = WalkCall("bfs", f, n, npos, r)
    /\ pc' = "called"
    /\ UNCHANGED <<pdelim, paths, pi, rets, current>>

\* setLevel(root)
SetLevel ==
    /\ pc = "ready"
    /\ nodes' = setLevel(nodes)
    /\ call' = WalkCall("setLevel", Functor("Level"), Root, npos,
                        setLevelWalk(nodes))
    /\ pc' = "called"
    /\ UNCHANGED <<pdelim, paths, pi, rets, current>>

\* setIndex(root)
SetIndex ==
    /\ pc = "ready"
    /\ nodes' = setIndex(nodes)
    /\ call' = WalkCall("setIndex", Functor("Index"), Root, npos,
                        setIndexWalk(nodes))
    /\ pc' = "called"
    /\ UNCHANGED <<pdelim, paths, pi, rets, current>>

NextWalk == CallDFS \/ CallBFS \/ SetLevel \/ SetIndex

SpecWalk == InitWalk /\ [][NextWalk]_vars

-----------------------------------------------------------------------------
(* main's command loop (treeNav.C) *)

\* the trees of the command runs: makeTree() and the scenario in both forms
ReplTrees ==
    {makeTreeDefault, makeTree(RootedPaths, delim), makeTree(ScenarioPaths, delim),
     makeTree(StarPaths, delim)}

\* the words of the command lines
wL  == <<"L">>
wLL == <<"L", "L">>
wX  == <<"X">>
wQ  == <<"\"">>
oL  == <<"-", "L">>

\* a line of words with one blank between them
Line(words) == Join(words, " ")

\* a number below 10 as strtol reads it
Numeral(n) == <<CHOOSE c \in {"0", "1", "2", "3", "4", "5", "6", "7", "8", "9"} :
                    Digit(c) = n>>

\* the lines typed: the empty line, help, an unknown command, and for each
\* command its forms with and without paths, patterns, options, and words
\* that are not well formed
CmdLines ==
    {<<>>, <<"h">>, wX, Line(<<wX, wQ \o nA>>)}
    \cup {Line(<<cPwd>>), Line(<<cPwd, wQ \o nA>>), Line(<<cPwd, <<"-", "h">>>>),
          Line(<<cQuit>>), Line(<<cQuit, wQ \o nA>>)}
    \cup {Line(<<cCd>> \o ws) :
            ws \in {<<>>, <<wL>>, <<nA>>, <<<<".", ".">>>>, <<<<"/">>>>, <<wX>>,
                    <<wL, <<"R">>>>, <<Join(<<nA, nA1>>, "/")>>,
                    <<<<"L", "*">>>>, <<wQ \o wL \o wQ>>, <<wQ \o nA>>}}
    \cup {Line(<<cLs>> \o ws) :
            ws \in {<<>>, <<wL>>, <<wX>>, <<<<"L", "*">>>>, <<<<"A", "*">>>>,
                    <<wQ \o nA>>, <<nA \o wQ>>, <<wQ \o nA \o wQ \o <<"1">>>>,
                    <<<<"[", "A">>>>, <<<<"A", "]">>>>,
                    <<<<"[", "[", "A", "]", "]">>>>,
                    <<wQ \o <<"A", "*">> \o wQ>>, <<<<"?">>>>,
                    <<<<"A", "*">>, <<"[", "A">>>>,
                    <<<<"*">>, wQ \o <<"*">> \o wQ, wX>>,
                    <<<<"-", "d">>, wL>>, <<<<"[", "A", "L", "]", "*">>>>,
                    <<<<"L", "/", ".">>>>}}
    \cup {Line(<<cTree>> \o ws) :
            ws \in {<<>>, <<wL>>, <<nA>>, <<wX>>, <<oL>>, <<wL, nA>>}}
    \cup {Line(<<cTree, oL, Numeral(n)>> \o ws) :
            n \in 0..MaxBound, ws \in {<<>>, <<wL>>, <<nA>>, <<Join(<<nA, nA1>>, "/")>>}}
    \cup {Line(<<cFind>> \o ws) :
            ws \in {<<>>, <<<<"L", "*">>>>, <<wLL>>, <<nA1>>, <<wL, wLL>>,
                    <<nA, nA1>>, <<wX, wLL>>, <<<<"[", "L">>>>, <<wQ \o nA>>,
                    <<<<"-", "l">>, <<"1">>>>, <<Join(<<nA, nA1>>, "/")>>,
                    <<wL, wLL, wX>>}}

\* what may stand in memory behind a word of the command line
ReplTails == {<<>>, <<"X">>}

InitRepl ==
    /\ nodes \in ReplTrees
    /\ pdelim = delim
    /\ paths = <<>>
    /\ pi = 1
    /\ rets = <<>>
    /\ pc = "prompt"
    /\ call = NoCall
    /\ current = Root

\* one turn of while (current && getline(cin, cmdLine)): an empty line is
\* skipped; a string thrown is caught in the loop; any other exception leaves
\* the loop
ReadLine ==
    /\ pc = "prompt"
    /\ current # NULL
    /\ \E line \in CmdLines, tail \in ReplTails :
          LET r == RunLine(nodes, current, line, tail)
          IN  IF line = <<>>
              THEN /\ call' = [op |-> "line", line |-> line, cur |-> current]
                   /\ UNCHANGED <<current, pc>>
              ELSE /\ call' = [op |-> "line", line |-> line, cur |-> current,
                               r |-> r]
                   /\ current' = r.current
                   /\ pc' = IF r.thrown = "regex_error" \/ r.current = NULL
                            THEN "exit" ELSE "prompt"
    /\ UNCHANGED <<nodes, pdelim, paths, pi, rets>>

\* getline(cin, cmdLine) meets the end of the input
EndOfInput ==
    /\ pc = "prompt"
    /\ pc' = "exit"
    /\ UNCHANGED <<nodes, pdelim, paths, pi, rets, call, current>>

NextRepl == ReadLine \/ EndOfInput

SpecRepl == InitRepl /\ [][NextRepl]_vars

-----------------------------------------------------------------------------
(* What the claims are stated with: paths as sequences of segments *)

RECURSIVE Split(_, _)
\* the segments of s: the text between two d, before the first and after the
\* last, empty ones included
Split(s, d) ==
    LET n == TokLen(s, 1, d)
    IN  IF n = Len(s) THEN <<s>>
        ELSE <<SubSeq(s, 1, n)>> \o Split(SubSeq(s, n + 2, Len(s)), d)

RECURSIVE StripLeft(_)
\* s without its leading whitespace
StripLeft(s) ==
    IF s # <<>> /\ Head(s) \in Whitespace THEN StripLeft(Tail(s)) ELSE s

IsName(seg) == seg \notin {<<>>, <<".">>, <<".", ".">>}
HasChar(s, cs) == \E i \in 1..Len(s) : s[i] \in cs
Wildcards == {"*", "?", "[", "]"}
NameSegs(s) == SelectSeq(Split(s, delim), IsName)
Dots(k) == Join([i \in 1..k |-> <<".", ".">>], delim)
Last(q) == q[Len(q)]
\* the start of a walk: the current node, or the root when there is none
StartOf(cur) == IF cur = NULL THEN Root ELSE cur

\* one step of the reference walk from position pos (NULL once it failed)
RefStep(ns, pos, seg) ==
    IF pos = NULL \/ seg = <<>> \/ seg = <<".">> THEN pos
    ELSE IF seg = <<".", ".">>
    THEN (IF ns[pos].parent = NULL THEN pos ELSE ns[pos].parent)
    ELSE IF \E k \in DOMAIN ns[pos].children : k = seg
    THEN ns[pos].children[seg]
    ELSE NULL

RECURSIVE RefFold(_, _, _)
RefFold(ns, pos, segs) ==
    IF segs = <<>> THEN pos
    ELSE RefFold(ns, RefStep(ns, pos, Head(segs)), Tail(segs))

\* the reference walk of a path string from an optional current node
RefWalk(ns, arg, cur) ==
    LET t == StripLeft(arg)
    IN  RefFold(ns,
                IF t # <<>> /\ Head(t) = delim THEN Root ELSE StartOf(cur),
                Split(t, delim))

RECURSIVE GlobMatch(_, _)
\* the shell's matching of a name by a segment in which only "*" is special
GlobMatch(pat, name) ==
    IF pat = <<>> THEN name = <<>>
    ELSE IF Head(pat) = "*"
    THEN \E k \in 0..Len(name) :
            GlobMatch(Tail(pat), SubSeq(name, k + 1, Len(name)))
    ELSE name # <<>> /\ Head(name) = Head(pat)
         /\ GlobMatch(Tail(pat), Tail(name))

RECURSIVE RefExpand(_, _, _, _)
RECURSIVE RefExpandKids(_, _, _, _, _)
\* the paths of the descending chains below node whose names the segments
\* match one by one, the children of each node tried in ascending name order
RefExpand(ns, node, segs, prefix) ==
    IF segs = <<>> THEN <<Join(prefix, delim)>>
    ELSE RefExpandKids(ns, ChildSeq(ns, node), segs, prefix, <<>>)

RefExpandKids(ns, kids, segs, prefix, acc) ==
    IF kids = <<>> THEN acc
    ELSE LET c == Head(kids)
         IN  RefExpandKids(ns, Tail(kids), segs, prefix,
                 IF GlobMatch(Head(segs), ns[c].name)
                 THEN acc \o RefExpand(ns, c, Tail(segs),
                                       Append(prefix, ns[c].name))
                 ELSE acc)

-----------------------------------------------------------------------------
(* The claims on glob expansion and on follow, under SpecNav *)

\* a word of C1: non-empty segments, none "." or "..", no "?", "[" or "]"
StarWord(w) ==
    /\ w # <<>>
    /\ \A i \in 1..Len(Split(w, delim)) : IsName(Split(w, delim)[i])
    /\ ~HasChar(w, {"?", "[", "]"})

\* C1 (as claimed): for every tree, start node and word of literal segments
\* and segments with "*", shellExpansion(node, w) records exactly the paths
\* of the matching descending chains, in ascending child order, "*" standing
\* for any run of characters and every other character for itself.
C1_GlobExact ==
    (call.op = "expand" /\ StarWord(call.word))
        => /\ ~call.err
           /\ call.paths = RefExpand(nodes, call.cur, Split(call.word, delim), <<>>)

\* C2 (as claimed): for a non-empty path without wildcard characters,
\* expansion returns one result, denoting the node follow returns from the
\* same start, when follow succeeds, and nothing when follow fails.  Only
\* calls whose cursor stayed inside the word are held to it.
C2_LiteralAsFollow ==
    (call.op = "expand" /\ call.word # <<>> /\ ~call.oob
         /\ ~HasChar(call.word, Wildcards))
        => LET f == follow(nodes, call.word, call.cur)
           IN  IF f = NULL THEN call.paths = <<>>
               ELSE /\ Len(call.paths) = 1
                    /\ follow(nodes, call.paths[1], call.cur) = f

\* C3 (as claimed): in the tree built from A/A1/A23, A/A2, B/B1 (as written
\* or with a leading delimiter), expanding "../A2" with current node A1
\* yields exactly the one result "A/A2".
C3_DotDotFullPath ==
    (/\ call.op = "expand"
     /\ nodes \in {makeTree(ScenarioPaths, delim), makeTree(RootedPaths, delim)}
     /\ nodes[call.cur].name = nA1
     /\ call.word = Join(<<<<".", ".">>, nA2>>, delim))
        => call.paths = <<Join(<<nA, nA2>>, delim)>>

\* the children of node named "A" and one more character, in key order
OneMore(ns, node) ==
    SelectSeq([i \in 1..Len(ChildSeq(ns, node)) |-> ns[ChildSeq(ns, node)[i]].name],
              LAMBDA nm : Len(nm) = 2 /\ nm[1] = "A")

\* C4 (as claimed): the segment "A?" matches exactly the children named "A"
\* plus one character (A1, and neither A nor A12), and expanding "A/A?/A*"
\* from the root of the scenario tree yields exactly A/A1/A23.
C4_QuestionMark ==
    /\ (call.op = "expand" /\ call.word = <<"A", "?">>)
           => call.paths = OneMore(nodes, call.cur)
    /\ (/\ call.op = "expand"
        /\ nodes \in {makeTree(ScenarioPaths, delim), makeTree(RootedPaths, delim)}
        /\ call.cur = Root
        /\ call.word = Join(<<nA, <<"A", "?">>, <<"A", "*">>>>, delim))
           => call.paths = <<Join(<<nA, nA1, nA23>>, delim)>>

\* C5: follow returns what the reference walk returns: leading whitespace
\* skipped, the start at the root for a path that begins with the delimiter
\* and at the current node (the root when none) otherwise, "." staying, ".."
\* going to the parent or staying at the root, a name going to the child
\* under that key; NULL exactly when some name has no such child.
C5_FollowIsWalk ==
    call.op = "follow" => call.node = RefWalk(nodes, call.word, call.cur)

C5_Witness ==
    /\ call.op = "follow"
    /\ call.word = <<" ", ".", ".", "/", "A", "2">>
    /\ call.cur # NULL /\ nodes[call.cur].name = nA1
    /\ call.node # NULL /\ nodes[call.node].name = nA2

\* a relative path of names and "." segments only
ForwardPath(w) ==
    LET t == StripLeft(w)
    IN  /\ t # <<>> /\ Head(t) # delim
        /\ \A i \in 1..Len(Split(t, delim)) : Split(t, delim)[i] # <<".", ".">>

\* C6: when follow resolves a relative path of k names (and any "." segments)
\* from n to m, follow resolves k ".." segments from m back to n.
C6_RoundTrip ==
    (call.op = "follow" /\ call.node # NULL /\ ForwardPath(call.word))
        => follow(nodes, Dots(Len(NameSegs(StripLeft(call.word)))), call.node)
              = StartOf(call.cur)

C6_Witness ==
    /\ call.op = "follow"
    /\ call.word = <<"A", "/", "A", "1">>
    /\ call.cur = Root
    /\ call.node # NULL /\ nodes[call.node].level = 2

-----------------------------------------------------------------------------
(* The claims on insert and makeTree, under Spec *)

\* the paths makeTree has inserted so far
Inserted == 1..(pi - 1)

\* a path that begins with the delimiter, followed by one name or more
RootedNamePath(P) ==
    /\ P # <<>> /\ Head(P) = delim
    /\ Len(Split(P, delim)) >= 2
    /\ \A i \in 2..Len(Split(P, delim)) : IsName(Split(P, delim)[i])

\* a path of one name or more that does not begin with the delimiter
PlainNamePath(P) ==
    /\ P # <<>>
    /\ \A i \in 1..Len(Split(P, delim)) : IsName(Split(P, delim)[i])

\* follow(root, path) finds a node of that name at that depth
Finds(path, name, depth) ==
    LET f == follow(nodes, path, NULL)
    IN  f # NULL /\ nodes[f].name = name /\ nodes[f].level = depth

\* C7 (as claimed): after makeTree(paths, '/') on paths that do not begin
\* with the delimiter, follow(root, delimiter + P) returns, for every
\* inserted path P, the node named by P's last segment at the depth of P's
\* number of segments.
C7_FollowFindsInserted ==
    \A i \in Inserted :
        (pdelim = delim /\ PlainNamePath(paths[i]))
            => Finds(<<delim>> \o paths[i], Last(Split(paths[i], delim)),
                     Len(Split(paths[i], delim)))

\* C7 (amended): the first segment of a path names the root.  A path P that
\* begins with the delimiter is found by follow(root, P) at the depth of its
\* number of names; a path P that does not, and that insert accepted, is
\* found below the root by follow(root, delimiter + P without its first
\* segment), one level higher.
C7_FollowFindsBelowRoot ==
    \A i \in Inserted :
        LET P == paths[i]
            segs == Split(P, delim)
        IN  /\ (pdelim = delim /\ RootedNamePath(P))
                   => /\ rets[i]
                      /\ Finds(P, Last(segs), Len(segs) - 1)
            /\ (pdelim = delim /\ PlainNamePath(P) /\ rets[i])
                   => /\ nodes[Root].name = segs[1]
                      /\ Finds(<<delim>> \o Join(Tail(segs), delim),
                               Last(segs), Len(segs) - 1)

C7_Witness ==
    /\ pc = "done" /\ pdelim = delim /\ paths = RootedPaths
    /\ Finds(RootedPaths[1], nA23, 3)

Rejected(ns, P, d) ==
    \/ P = <<>>
    \/ /\ ns[Root].name # <<>>
       /\ Split(P, d)[1] # <<>>
       /\ Split(P, d)[1] # ns[Root].name

\* C9: a rejected insertion (an empty path; a non-empty leading segment that
\* differs from the name the root has) returns failure and changes no node,
\* and makeTree goes on with the paths that remain: it returns only after
\* every path was handed to insert.
C9_RejectedInsertNoChange ==
    /\ [][(pc = "build" /\ pi' = pi + 1 /\ Rejected(nodes, paths[pi], pdelim))
             => /\ nodes' = nodes
                /\ rets'[pi] = FALSE
                /\ pc' = "build"]_vars
    /\ [](pc = "done" => Len(rets) = Len(paths))

C9_Witness ==
    /\ pc = "done" /\ pdelim = delim
    /\ paths = <<ScenarioPaths[1], ScenarioPaths[3], ScenarioPaths[2]>>
    /\ rets = <<TRUE, FALSE, TRUE>>
    /\ nA2 \in DOMAIN nodes[Root].children

\* the entries <<parent, key>> of all child maps
Entries(ns) ==
    UNION {{<<p, k>> : k \in DOMAIN ns[p].children} : p \in 1..Len(ns)}

\* the structure is a tree: each child-map entry agrees with the child's
\* parent, name and level, and each node but the root is in one child map
Consistent(ns) ==
    /\ ns[Root].parent = NULL /\ ns[Root].level = 0
    /\ \A e \in Entries(ns) :
          LET c == ns[e[1]].children[e[2]]
          IN  /\ c \in 2..Len(ns)
              /\ ns[c].parent = e[1]
              /\ ns[c].name = e[2]
              /\ ns[c].level = ns[e[1]].level + 1
    /\ \A c \in 2..Len(ns) :
          Cardinality({e \in Entries(ns) : ns[e[1]].children[e[2]] = c}) = 1

\* C10: after any sequence of insert calls on an empty root the structure is
\* a consistent tree, and no node is ever removed or given another parent.
C10_TreeConsistent ==
    /\ [](Consistent(nodes))
    /\ [][/\ Len(nodes') >= Len(nodes)
          /\ \A n \in 1..Len(nodes) : nodes'[n].parent = nodes[n].parent]_vars

C10_Witness ==
    /\ pi = 4 /\ rets = <<TRUE, TRUE, TRUE>> /\ Len(nodes) = 7
    /\ \E n \in 1..Len(nodes) : nodes[n].level = 3

-----------------------------------------------------------------------------
(* The traversals: C11 to C14 *)

\* the structural depth of n: the number of parent links up to the root
RECURSIVE Depth(_, _)
Depth(ns, n) == IF ns[n].parent = NULL THEN 0 ELSE 1 + Depth(ns, ns[n].parent)

Kids(ns, n) == {ns[n].children[k] : k \in DOMAIN ns[n].children}

\* the children of n by ascending name: the i-th has i-1 siblings of smaller name
Ascending(ns, n) ==
    [i \in 1..Cardinality(Kids(ns, n)) |->
        CHOOSE c \in Kids(ns, n) :
            Cardinality({d \in Kids(ns, n) : StrLess(ns[d].name, ns[c].name)}) = i - 1]

Visits(ev) == SelectSeq(ev, LAMBDA x : x.e = "visit")
Exits(ev) == SelectSeq(ev, LAMBDA x : x.e = "exit")
VisitsOf(ev, n) == Len(SelectSeq(ev, LAMBDA x : x.e = "visit" /\ x.n = n))
ExitsOf(ev, n) == Len(SelectSeq(ev, LAMBDA x : x.e = "exit" /\ x.n = n))

\* what visit(n) returned in ev
Returned(ev, n) == \E i \in 1..Len(ev) : ev[i].e = "visit" /\ ev[i].n = n /\ ev[i].cont

RECURSIVE RefOrder(_, _, _)
RECURSIVE RefOrderKids(_, _, _)
\* the order of events the walk of n has by C11, given what the visits returned
RefOrder(ns, n, ev) ==
    <<[e |-> "visit", n |-> n, cont |-> Returned(ev, n)]>>
    \o (IF Returned(ev, n) THEN RefOrderKids(ns, Ascending(ns, n), ev) ELSE <<>>)
    \o <<[e |-> "exit", n |-> n, cont |-> TRUE]>>
RefOrderKids(ns, kids, ev) ==
    IF kids = <<>> THEN <<>>
    ELSE RefOrder(ns, Head(kids), ev) \o RefOrderKids(ns, Tail(kids), ev)

\* C11: an unbounded depth-first walk from a node calls visit(n), then, if and
\* only if visit(n) returned true, walks each child of n in ascending key
\* order, then calls exit(n); no node is visited or left twice, and every
\* visited node is left, also when its children were skipped.
C11_DfsOrder ==
    (call.op = "dfs" /\ call.bound = npos) =>
        /\ call.ev = RefOrder(nodes, call.cur, call.ev)
        /\ \A n \in 1..Len(nodes) :
              VisitsOf(call.ev, n) <= 1 /\ ExitsOf(call.ev, n) = VisitsOf(call.ev, n)

\* an unbounded walk of a tree of three levels in which a visit returned false
\* at a node that has children
C11_Witness ==
    /\ call.op = "dfs" /\ call.bound = npos /\ call.cur = Root
    /\ \E n \in 1..Len(nodes) : Depth(nodes, n) = 2
    /\ \E i \in 1..Len(call.ev) :
          /\ call.ev[i].e = "visit" /\ ~call.ev[i].cont
          /\ Kids(nodes, call.ev[i].n) # {}
          /\ call.ev[i + 1] = [e |-> "exit", n |-> call.ev[i].n, cont |-> TRUE]
    /\ \E n \in 1..Len(nodes) : Cardinality(Kids(nodes, n)) >= 2 /\ Returned(call.ev, n)

CountsLevel(f) == f.kind \in {"Level", "NodeCounter", "PrintNode"}

C13_IndexLevelOrder ==
    call.op = "setIndex" =>
        /\ {nodes[i].idx : i \in 1..Len(nodes)} = 0..(Len(nodes) - 1)
        /\ nodes[Root].idx = 0
        /\ \A a, b \in 1..Len(nodes) :
              /\ (a # b) => nodes[a].idx # nodes[b].idx
              /\ Depth(nodes, a) < Depth(nodes, b) => nodes[a].idx < nodes[b].idx
              /\ (/\ a # b /\ nodes[a].parent = nodes[b].parent
                  /\ StrLess(nodes[a].name, nodes[b].name))
                    => nodes[a].idx < nodes[b].idx
              /\ (/\ a # Root /\ b # Root
                  /\ Depth(nodes, a) = Depth(nodes, b)
                  /\ nodes[nodes[a].parent].idx < nodes[nodes[b].parent].idx)
                    => nodes[a].idx < nodes[b].idx

\* setIndex on a tree of three levels with two parents of children, where the
\* order of allocation is not the level order
C13_Witness ==
    /\ call.op = "setIndex"
    /\ \E a, b \in 2..Len(nodes) :
          /\ nodes[a].parent # nodes[b].parent
          /\ Depth(nodes, a) = 2 /\ Depth(nodes, b) = 2
    /\ \E a, b \in 1..Len(nodes) : a < b /\ nodes[a].idx > nodes[b].idx
    /\ \E a \in 1..Len(nodes) : call.before[a].idx # nodes[a].idx

\* C14: after setLevel(root), whatever the level fields held before, every
\* node's level is its structural depth, and the Level visitor's counter is
\* back at 0.
C14_LevelIsDepth ==
    call.op = "setLevel" =>
        /\ \A n \in 1..Len(nodes) : nodes[n].level = Depth(nodes, n)
        /\ nodes[Root].level = 0
        /\ \A n \in 2..Len(nodes) : nodes[n].level = nodes[nodes[n].parent].level + 1
        /\ call.f.level_ = 0

\* setLevel on a tree of three levels whose level fields were wrong, with a
\* node that has a sibling walked before it
C14_Witness ==
    /\ call.op = "setLevel"
    /\ \E n \in 1..Len(nodes) : Depth(nodes, n) = 2 /\ call.before[n].level # 2
    /\ \E n \in 1..Len(nodes) : Cardinality(Kids(nodes, n)) >= 2

-----------------------------------------------------------------------------
(* follow on an empty path: C16 *)

\* C16 (as claimed): follow of an empty path, or of whitespace only, returns
\* NULL, with or without a current node.
C16_EmptyPathNull ==
    (call.op = "follow" /\ StripLeft(call.word) = <<>>) => call.node = NULL

\* C16 (amended): follow of an empty path, or of whitespace only, returns the
\* node the walk starts at, the current node or the root when there is none,
\* and never NULL; the tree is as it was.
C16_EmptyPathStart ==
    (call.op = "follow" /\ StripLeft(call.word) = <<>>) =>
        /\ call.node = StartOf(call.cur)
        /\ call.node # NULL
        /\ nodes \in NavTrees

\* follow of " " with a current node below the root, and of "" without one
C16_Witness ==
    /\ call.op = "follow"
    /\ \/ call.word = <<" ">> /\ call.cur > Root /\ call.node = call.cur
       \/ call.word = <<>> /\ call.cur = NULL /\ call.node = Root

-----------------------------------------------------------------------------
(* ".." at the root and the path stack: C17, C18 *)

\* C17 (as claimed): from the root, a word that begins with "../" expands to
\* what the rest of the word expands to from the root.
C17_DotDotAtRoot ==
    (/\ call.op = "expand" /\ call.cur = Root /\ ~call.oob
     /\ Len(call.word) > 3
     /\ SubSeq(call.word, 1, 3) = <<".", ".", "/">>)
        => call.paths =
               expand(nodes, Root, SubSeq(call.word, 4, Len(call.word)), <<>>).paths

\* a segment of a word against a name: equal when the segment has no
\* wildcard, matched as the expression adjustPattern makes otherwise
SegFits(seg, name) ==
    IF HasChar(seg, Wildcards)
    THEN LET re == regexCompile(adjustPattern(seg \o <<NUL>>, 1, delim).tok)
         IN  re.ok /\ regex_match(name, re)
    ELSE seg = name

\* C18: every call of shellExpansion(node, w) that returns leaves pathSoFar as
\* it was at the call, so an expansion that starts with an empty stack ends
\* with an empty stack; and at every call of makePath the stack holds one node
\* for each name or pattern segment of the word, in order, each fitting its
\* segment.
C18_StackRestored ==
    call.op = "expand" =>
        /\ call.restored
        /\ ~call.err => call.stack = <<>>
        /\ ~call.oob =>
              \A k \in 1..Len(call.made) :
                  /\ Len(call.made[k]) = Len(NameSegs(call.word))
                  /\ \A i \in 1..Len(call.made[k]) :
                        SegFits(NameSegs(call.word)[i], nodes[call.made[k][i]].name)

\* an expansion that pushed and popped along two branches and through "..":
\* two results of two nodes each, or a stack that is no chain of the tree
C18_Witness ==
    /\ call.op = "expand" /\ ~call.err /\ ~call.oob
    /\ call.stack = <<>>
    /\ \/ Len(call.made) >= 2 /\ \A k \in 1..Len(call.made) : Len(call.made[k]) = 2
       \/ \E k \in 1..Len(call.made) :
             /\ Len(call.made[k]) = 2
             /\ nodes[call.made[k][2]].parent # call.made[k][1]

-----------------------------------------------------------------------------
(* The command loop: C15, C19, C20 *)

RECURSIVE WordsOf(_)
\* the words of a line: the runs of characters between blanks
WordsOf(line) ==
    LET w == FirstWord(line)
        t == SkipSpace(line)
    IN  IF w = <<>> THEN <<>>
        ELSE <<w>> \o WordsOf(SubSeq(t, Len(w) + 1, Len(t)))

\* a word with a quote that is not one pair of quotes around the word
BadQuotes(w) ==
    /\ HasChar(w, {"\""})
    /\ ~ (/\ Len(w) >= 2 /\ w[1] = "\"" /\ w[Len(w)] = "\""
          /\ \A i \in 2..(Len(w) - 1) : w[i] # "\"")

RECURSIVE BracketsPair(_, _, _)
\* from position i, with open telling whether a "[" awaits its "]": every "["
\* is closed by a "]" before the next "[", and no "]" stands alone
BracketsPair(w, i, open) ==
    IF i > Len(w) THEN ~open
    ELSE IF w[i] = "[" THEN ~open /\ BracketsPair(w, i + 1, TRUE)
    ELSE IF w[i] = "]" THEN open /\ BracketsPair(w, i + 1, FALSE)
    ELSE BracketsPair(w, i + 1, open)

\* a word that is not well formed
Offending(w) ==
    \/ BadQuotes(w)
    \/ ~HasChar(w, {"\""}) /\ ~BracketsPair(w, 1, FALSE)

\* the words behind the command's name that are not well formed
OffendingWords(line) ==
    {WordsOf(line)[i] : i \in {k \in 2..Len(WordsOf(line)) :
                                  Offending(WordsOf(line)[k])}}

\* C15 (as claimed): a line that names a registered command and holds a word
\* that is not well formed (an unmatched quote, a quote inside a token, a
\* character right behind a closing quote, brackets unbalanced or nested)
\* makes the constructor throw the error the loop catches; the word is not
\* expanded, exec is not entered, the current node stays and the loop reads
\* the next line.
C15_MalformedRejected ==
    [][(/\ pc = "prompt"
        /\ call' # call
        /\ call'.op = "line"
        /\ FirstWord(call'.line) \in apiMap
        /\ OffendingWords(call'.line) # {})
          => /\ call'.r.thrown = "string"
             /\ ~call'.r.executed
             /\ \A i \in 1..Len(call'.r.tried) :
                   call'.r.tried[i] \notin OffendingWords(call'.line)
             /\ current' = current
             /\ pc' = "prompt"]_vars

RECURSIVE Above(_, _, _)
RECURSIVE AboveKids(_, _, _)
\* the nodes of the subtree of n less than k levels below n, depth first with
\* the children by ascending name
Above(ns, n, k) ==
    IF k <= 0 THEN <<>>
    ELSE <<n>> \o AboveKids(ns, Ascending(ns, n), k - 1)
AboveKids(ns, kids, k) ==
    IF kids = <<>> THEN <<>>
    ELSE Above(ns, Head(kids), k) \o AboveKids(ns, Tail(kids), k)

\* the nodes of the lines written
NodesOf(out) == [i \in 1..Len(out) |-> out[i].node]

\* the line run last was "tree -L n" or "tree -L n path"
TreeLevelLine ==
    /\ call.op = "line" /\ call.line # <<>>
    /\ call.r.cmd = cTree /\ call.r.executed
    /\ Len(call.r.argv) \in {3, 4}
    /\ call.r.argv[2] = oL
    /\ Len(call.r.argv[3]) = 1 /\ Digit(call.r.argv[3][1]) >= 0

\* the node "tree" prints: the current node, or the one the path names
TreeCwd ==
    IF Len(call.r.argv) = 3 THEN call.cur
    ELSE follow(nodes, call.r.argv[4], call.cur)

\* C19 (as claimed): "tree -L n [path]" writes the nodes of the subtree of cwd
\* (the current node, or the node the path names) that are less than n levels
\* below cwd, cwd being at 0, depth first with children by ascending name,
\* whether or not cwd is the root.
C19_TreeLevelRelative ==
    (TreeLevelLine /\ TreeCwd # NULL) =>
        NodesOf(call.r.out) = Above(nodes, TreeCwd, Digit(call.r.argv[3][1]))

\* the line run last was "find where what", both words no options
FindWhereLine ==
    /\ call.op = "line" /\ call.line # <<>>
    /\ call.r.cmd = cFind /\ call.r.executed
    /\ Len(call.r.argv) = 3
    /\ call.r.argv[2][1] # "-" /\ call.r.argv[3][1] # "-"

\* C20 (as claimed): "find where what" follows where from the current node and
\* writes the nodes of the subtree of where whose name matches what, breadth
\* first; "No such node" is written, and nothing searched, only when where
\* names no node.
C20_FindWhereWhat ==
    FindWhereLine =>
        LET node == follow(nodes, call.r.argv[2], call.cur)
            what == adjustPattern(call.r.argv[3] \o <<NUL>>, 1, NUL)
            r    == find(nodes, node, what.tok, anyLevel)
        IN  /\ (call.r.msg = "find: No such node") <=> (node = NULL)
            /\ (node # NULL /\ ~what.hasDelim /\ r.ok) =>
                   NodesOf(call.r.out) = r.nodes

-----------------------------------------------------------------------------
(* What expansion records and where the cursor goes: C21, C23 *)

\* the path makePath stores for the stack q
PathOf(ns, q) == Join([i \in 1..Len(q) |-> ns[q[i]].name], delim)

\* C21 (as claimed): every path the expansion of a pattern word records is
\* followed, from the node the expansion started at, to the node at which
\* that branch of the expansion met the end of the word.
C21_RecordedPathResolves ==
    (/\ call.op = "expand" /\ ~call.err /\ ~call.oob
     /\ HasChar(call.word, Wildcards))
        => \A k \in 1..Len(call.made) :
              call.made[k] # <<>> =>
                  /\ \E i \in 1..Len(call.paths) :
                        call.paths[i] = PathOf(nodes, call.made[k])
                  /\ follow(nodes, PathOf(nodes, call.made[k]), call.cur)
                        = call.ends[k]

\* C23 (as claimed): while a pattern word is expanded, every call of
\* shellExpansion(node, w) has w at a character of the word or at its
\* terminator, also when the last segment of the word is ".".
C23_CursorInWord ==
    (/\ call.op = "expand" /\ ~call.err
     /\ HasChar(call.word, Wildcards))
        => ~call.oob

-----------------------------------------------------------------------------
(* The current node of the command loop: C22 *)

\* the words behind the command's name that are no options
PlainArgs(av) == SelectSeq(Tail(av), LAMBDA w : w = <<>> \/ w[1] # "-")

\* the current node C22 gives after the line that left r, read with the
\* current node cur
CurrentAfter(ns, cur, r) ==
    IF ~r.known \/ ~r.executed \/ r.thrown # "none" THEN cur
    ELSE IF r.cmd = cQuit THEN NULL
    ELSE IF r.cmd # cCd THEN cur
    ELSE IF Len(PlainArgs(r.argv)) # Len(r.argv) - 1 THEN cur
    ELSE IF Len(PlainArgs(r.argv)) > 1 THEN cur
    ELSE IF PlainArgs(r.argv) = <<>> THEN Root
    ELSE IF follow(ns, r.argv[2], cur) = NULL THEN cur
    ELSE follow(ns, r.argv[2], cur)

\* C22: while the loop reads lines the current node is a node of the tree; it
\* is null only after "q"; "cd path" sets it to the node follow(root, path,
\* current) returns and "cd" to the root; every other line, a "cd" whose path
\* names no node and a "cd" with more than one path leave it as it was.
C22_CurrentNode ==
    /\ pc = "prompt" => current \in 1..Len(nodes)
    /\ (call.op = "line" /\ call.line # <<>>) =>
          /\ current = CurrentAfter(nodes, call.cur, call.r)
          /\ current \in 1..Len(nodes) \/ (current = NULL /\ call.r.cmd = cQuit)

\* a "cd path" read at a node below the root that moved to another node
C22_Witness ==
    /\ call.op = "line" /\ call.line # <<>>
    /\ call.cur # Root
    /\ call.r.cmd = cCd /\ call.r.executed /\ Len(call.r.argv) = 2
    /\ current \notin {call.cur, Root, NULL}

-----------------------------------------------------------------------------
(* The argument list after shellExpansion(node): C24 *)

\* a word between two quotes
IsQuoted(w) == Len(w) >= 2 /\ w[1] = "\"" /\ w[Len(w)] = "\""

RECURSIVE Expanded(_, _, _)
\* the list C24 gives for the words ws at the node cur: the matches of a
\* pattern word in its place, a pattern word without matches as typed, a
\* quoted word without its quotes, any other word as it is
Expanded(ns, cur, ws) ==
    IF ws = <<>> THEN <<>>
    ELSE LET w  == Head(ws)
             ps == expand(ns, cur, w, <<>>).paths
         IN  (IF IsQuoted(w) THEN <<SubSeq(w, 2, Len(w) - 1)>>
              ELSE IF HasChar(w, Wildcards) /\ ps # <<>> THEN ps
              ELSE <<w>>)
             \o Expanded(ns, cur, Tail(ws))

\* the line run last went through shellExpansion(node) without an exception
\* and without a read behind a word (ls, cd and tree hand the constructor
\* the line and the current node)
ArgvProcessed ==
    /\ call.op = "line" /\ call.line # <<>>
    /\ call.r.cmd \in {cLs, cCd, cTree}
    /\ call.r.executed /\ ~call.r.oob

\* C24: once shellExpansion(node) has gone through a well-formed list, the
\* list is the one typed with every pattern word that has matches replaced,
\* in its place, by its matches in the order they were found, every pattern
\* word without a match as typed, every quoted word without its two quotes
\* and not expanded, and every plain word as it was; the matches put in are
\* not expanded again.
C24_ArgvExpanded ==
    ArgvProcessed =>
        call.r.argv = Expanded(nodes, call.cur, makeArgs(call.line).words)

\* a line with a pattern of two matches, one of them a name that holds "*",
\* a quoted "*" and a plain word
C24_Witness ==
    /\ ArgvProcessed
    /\ Len(call.r.argv) > Len(makeArgs(call.line).words)
    /\ \E i \in 1..Len(makeArgs(call.line).words) :
          /\ IsQuoted(makeArgs(call.line).words[i])
          /\ HasChar(makeArgs(call.line).words[i], Wildcards)
    /\ \E i \in 1..Len(call.r.argv) :
          /\ call.r.argv[i] \notin {call.line, <<"*">>}
          /\ HasChar(call.r.argv[i], Wildcards)
          /\ \A k \in 1..Len(makeArgs(call.line).words) :
                makeArgs(call.line).words[k] # call.r.argv[i]

====
